---- MODULE Spec2Model ----
(***************************************************************************)
(* PixelArtScale: the PNG <-> nested-list joint (pypng/pnglpng.py) and the *)
(* single-file and batch drivers of ScaleNxGUI.py.                         *)
(*                                                                         *)
(* An `info` dictionary is a record over InfoKeys; a key that is not in    *)
(* the dictionary holds <<>>, a key that is holds <<value>>.               *)
(***************************************************************************)
EXTENDS Integers, Sequences, FiniteSets, TLC

\* ------------------------------------------------------------------ bounds
MaxX == 2
MaxY == 2
MaxZ == 5
MaxCells == 5
MaxSample == 1
MaxEntries == 3
NWorkers == 2

\* ------------------------------------------------------- info dictionaries
InfoKeys ==
    {"size", "planes", "alpha", "greyscale", "bitdepth", "physical",
     "compression", "palette", "background", "gamma"}

Has(info, k) == info[k] # <<>>

Get(info, k) == info[k][1]

Put(info, k, v) == [info EXCEPT ![k] = <<v>>]

Del(info, k) == [info EXCEPT ![k] = <<>>]

EmptyInfo == [k \in InfoKeys |-> <<>>]

min(a, b) == IF a < b THEN a ELSE b

\* ------------------------------------------------------------ pnglpng.py
\* Variant of list2png_info that leaves palette and background in place.
list2png_nodelete(list_3d, info) ==
    LET Y == Len(list_3d)
        X == Len(list_3d[1])
        Z == min(Len(list_3d[1][1]), 4)
        i1 == Put(info, "size", <<X, Y>>)
        i2 == Put(i1, "planes", Z)
        i5 == IF (Z % 2) = 1 THEN Put(i2, "alpha", FALSE) ELSE Put(i2, "alpha", TRUE)
    IN  IF Z < 3 THEN Put(i5, "greyscale", TRUE) ELSE Put(i5, "greyscale", FALSE)

\* Variant of list2png_info that keeps an alpha flag the caller's info holds.
list2png_stale(list_3d, info) ==
    LET Y == Len(list_3d)
        X == Len(list_3d[1])
        Z == min(Len(list_3d[1][1]), 4)
        i1 == Put(info, "size", <<X, Y>>)
        i2 == Put(i1, "planes", Z)
        i3 == IF Has(i2, "palette") THEN Del(i2, "palette") ELSE i2
        i4 == IF Has(i3, "background") THEN Del(i3, "background") ELSE i3
        i5 == IF Has(i4, "alpha") THEN i4
              ELSE IF (Z % 2) = 1 THEN Put(i4, "alpha", FALSE) ELSE Put(i4, "alpha", TRUE)
    IN  IF Z < 3 THEN Put(i5, "greyscale", TRUE) ELSE Put(i5, "greyscale", FALSE)

\* Variant of list2png_info that hands on the recognized keys only.
list2png_known(list_3d, info) ==
    LET Y == Len(list_3d)
        X == Len(list_3d[1])
        Z == min(Len(list_3d[1][1]), 4)
        i1 == Put(info, "size", <<X, Y>>)
        i2 == Put(i1, "planes", Z)
        i3 == IF Has(i2, "palette") THEN Del(i2, "palette") ELSE i2
        i4 == IF Has(i3, "background") THEN Del(i3, "background") ELSE i3
        i5 == IF (Z % 2) = 1 THEN Put(i4, "alpha", FALSE) ELSE Put(i4, "alpha", TRUE)
        i6 == IF Z < 3 THEN Put(i5, "greyscale", TRUE) ELSE Put(i5, "greyscale", FALSE)
    IN  Del(i6, "gamma")

\* list2png, lines 149-174: the `info` the PNG writer is constructed with.
list2png_info(list_3d, info) ==
    LET Y == Len(list_3d)
        X == Len(list_3d[1])
        Z == min(Len(list_3d[1][1]), 4)
        i1 == Put(info, "size", <<X, Y>>)
        i2 == Put(i1, "planes", Z)
        i3 == IF Has(i2, "palette") THEN Del(i2, "palette") ELSE i2
        i4 == IF Has(i3, "background") THEN Del(i3, "background") ELSE i3
        i5 == IF (Z % 2) = 1 THEN Put(i4, "alpha", FALSE) ELSE Put(i4, "alpha", TRUE)
    IN  IF Z < 3 THEN Put(i5, "greyscale", TRUE) ELSE Put(i5, "greyscale", FALSE)

\* Variant of flatten_2d with the loops swapped (for z ... for x ...).
flatten_2d_planar(list_3d, X, Y, Z) ==
    [y \in 1..Y |->
        [k \in 1..(X * Z) |->
            list_3d[y][((k - 1) % X) + 1][((k - 1) \div X) + 1]]]

\* Variant of flatten_2d that emits every channel of a pixel.
flatten_2d_noclamp(list_3d, X, Y, Z) ==
    LET Zall == Len(list_3d[1][1])
    IN  [y \in 1..Y |->
            [k \in 1..(X * Zall) |->
                list_3d[y][((k - 1) \div Zall) + 1][((k - 1) % Zall) + 1]]]

\* list2png.flatten_2d, lines 177-185: row y is the flat list of
\* list_3d[y][x][z] for x in range(X) for z in range(Z).
flatten_2d(list_3d, X, Y, Z) ==
    [y \in 1..Y |->
        [k \in 1..(X * Z) |->
            list_3d[y][((k - 1) \div Z) + 1][((k - 1) % Z) + 1]]]

\* list2png, lines 149-190: what png.Writer(X, Y, **info).write(rows) is given;
\* the written file holds these rows and this info.
list2png(list_3d, info) ==
    LET Y == Len(list_3d)
        X == Len(list_3d[1])
        Z == min(Len(list_3d[1][1]), 4)
    IN  [kind |-> "png",
         info |-> list2png_info(list_3d, info),
         rows |-> flatten_2d(list_3d, X, Y, Z)]

\* png2list, lines 107-113: maxcolors from the bit depth; no branch assigns it
\* for another depth and the return statement then raises (0 here).
maxcolors_of(bitdepth) ==
    IF bitdepth = 1 THEN 1
    ELSE IF bitdepth = 8 THEN 255
    ELSE IF bitdepth = 16 THEN 65535
    ELSE 0

\* png2list, lines 103-126, of a readable PNG: source.asDirect() gives the
\* size, the rows and the info of the file.
png2list(file) ==
    LET X == Get(file.info, "size")[1]
        Y == Get(file.info, "size")[2]
        Z == Get(file.info, "planes")
        imagedata == file.rows
    IN  [X |-> X, Y |-> Y, Z |-> Z,
         maxcolors |-> maxcolors_of(Get(file.info, "bitdepth")),
         list_3d |-> [y \in 1..Y |-> [x \in 1..X |-> [z \in 1..Z |->
                         imagedata[y][((x - 1) * Z) + z]]]],
         info |-> file.info]

\* ------------------------------------------------------- collaborators
\* pypnm.pnmlpnm is not part of the sources: list2pnm(filename, image, maxcolors)
\* writes a PNM holding the image and its maxcolors, pnm2list reads them back.
list2pnm(image3d, maxcolors) ==
    [kind |-> "pnm", image |-> image3d, maxcolors |-> maxcolors]

pnm2list(file) ==
    [X |-> Len(file.image[1]), Y |-> Len(file.image),
     Z |-> Len(file.image[1][1]), maxcolors |-> file.maxcolors,
     list_3d |-> file.image]

\* scalenx / scalenxsfx are not part of the sources: a scaler returns an image
\* of N times the width and height and the same channels. On the images of
\* this model (one colour per image) Scale2x and Scale3x repeat that colour.
scaleNx(image3d, N) ==
    [y \in 1..(N * Len(image3d)) |->
        [x \in 1..(N * Len(image3d[1])) |->
            image3d[((y - 1) \div N) + 1][((x - 1) \div N) + 1]]]

\* ---------------------------------------------------------- ScaleNxGUI.py
\* Lines 120-132 / 203-215 / 262-274: the scaler chosen by sfx and size.
scale2x(image3d) == scaleNx(image3d, 2)

scale3x(image3d) == scaleNx(image3d, 3)

chosen_scaler(size, sfx, image3d) ==
    IF sfx
    THEN IF size = 2 THEN scale2x(image3d) ELSE scale3x(image3d)
    ELSE IF size = 2 THEN scale2x(image3d) ELSE scale3x(image3d)

\* Variant of fix_resolution that adds no record when the input had none.
fix_resolution_keep(info, size) ==
    IF Has(info, "physical")
    THEN Put(info, "physical",
             <<size * Get(info, "physical")[1], size * Get(info, "physical")[2],
               Get(info, "physical")[3]>>)
    ELSE info

\* Lines 137-150 (FileNx) and 220-233 (scale_file_png): the resolution fix.
fix_resolution(info, size) ==
    LET res == IF Has(info, "physical") THEN Get(info, "physical")
               ELSE <<3780, 3780, TRUE>>
    IN  Put(info, "physical", <<size * res[1], size * res[2], res[3]>>)

\* Variant of set_compression that keeps a level the info already holds.
set_compression_default(info) ==
    IF Has(info, "compression") THEN info ELSE Put(info, "compression", 9)

\* Lines 155 (FileNx) and 238 (scale_file_png).
set_compression(info) == Put(info, "compression", 9)

\* Lines 108-114 (FileNx): the dummy info of a PNM source.
dummy_info(maxcolors) ==
    IF maxcolors > 255 THEN Put(EmptyInfo, "bitdepth", 16)
    ELSE Put(EmptyInfo, "bitdepth", 8)

\* Variant of newfile: every task writes to one and the same path.
newfile_shared(oldfile) == 1

\* Lines 197 and 256: a batch task writes where it read.
newfile(oldfile) == oldfile

\* png.Reader(...).asDirect() and png2list succeed on a PNG of bit depth 1, 8
\* or 16 (lines 103-113, 126); pnm2list succeeds on a PNM (line 259).
png_readable(content) ==
    /\ content.kind = "png"
    /\ maxcolors_of(Get(content.info, "bitdepth")) # 0

pnm_readable(content) == content.kind = "pnm"

\* Lines 217-238: the info scale_file_png hands to list2png.
scale_file_png_info(dec, size) == set_compression(fix_resolution(dec.info, size))

\* Lines 200-241: what scale_file_png writes, from what png2list returned.
scale_file_png_result(dec, size, sfx) ==
    list2png(chosen_scaler(size, sfx, dec.list_3d), scale_file_png_info(dec, size))

\* Lines 259-277: what scale_file_pnm writes, from what pnm2list returned.
scale_file_pnm_result(dec, size, sfx) ==
    list2pnm(chosen_scaler(size, sfx, dec.list_3d), dec.maxcolors)

\* Lines 307 and 316: the suffixes FolderNx feeds to the pool.
is_png(suffix) == suffix = ".png"

is_pnm_any(suffix) == suffix \in {".ppm", ".pgm", ".pbm"}

is_pnm(suffix) == suffix \in {".ppm", ".pgm"}

\* Variant of task_error_reaches_driver: FolderNx asks each result for its value.
task_error_reraised == TRUE

\* Lines 308-315, 317-324, 327-328: apply_async's result object is dropped and
\* never asked for its value, so a task's exception never reaches FolderNx.
task_error_reaches_driver == FALSE

\* ------------------------------------------------- inputs of the codec runs
Shapes ==
    {s \in (1..MaxY) \X (1..MaxX) \X (1..MaxZ) : s[1] * s[2] * s[3] <= MaxCells}

ArraysOf(s) == [1..s[1] -> [1..s[2] -> [1..s[3] -> 0..MaxSample]]]

Arrays == UNION {ArraysOf(s) : s \in Shapes}

\* Metadata as a caller may hand it over: nothing (a dummy info), or the
\* size/planes/alpha/greyscale an earlier decode of another image left in it
\* (7x7 pixels, p planes), with or without palette and background chunks.
Opt(S) == {<<>>} \cup {<<v>> : v \in S}

StaleDerived ==
    {[size |-> <<>>, planes |-> <<>>, alpha |-> <<>>, greyscale |-> <<>>]}
    \cup {[size |-> << <<7, 7>> >>, planes |-> <<p>>,
           alpha |-> <<p % 2 = 0>>, greyscale |-> <<p < 3>>] : p \in 1..4}

StaleInfos ==
    {[EmptyInfo EXCEPT !.size = st.size, !.planes = st.planes, !.alpha = st.alpha,
                       !.greyscale = st.greyscale, !.palette = pa, !.background = bg,
                       !.bitdepth = <<8>>, !.gamma = <<45455>>] :
        st \in StaleDerived, pa \in Opt({"plte"}), bg \in Opt({"bkgd"})}

NoFile == [kind |-> "none"]

VARIABLES
    c_pc,       \* codec run: "start", "encoded", "reencoded", "decoded"
    c_list,     \* the pixel array handed to list2png
    c_info,     \* the caller's info dictionary (list2png updates it in place)
    c_file,     \* the PNG the last list2png wrote
    c_prev,     \* the PNG an earlier list2png of the same array wrote
    c_given,    \* the info as the caller handed it to the last list2png
    c_out,      \* what png2list returned for c_file
    tree,       \* the chosen folder: entry i has a suffix and is a file or a directory
    disk,       \* content of each path; path 0 is the "Save image file" target
    disk0,      \* disk as it was when FolderNx created its pool
    ui,         \* "normal", "waiting", "busy" (UINormal, UIWaiting, UIBusy)
    pc,         \* where the GUI thread is
    args,       \* size and sfx of the running FileNx / FolderNx call
    worked,     \* a file or folder has been chosen in a dialog
    outcome,    \* how the last call ended: "none", "cancelled", "returned", "raised"
    floc,       \* FileNx locals: sourcefilename, decoded data, resultfilename
    pool,       \* scalepool: "none", "RUN", "CLOSE"
    cursor,     \* position of the rglob loop of FolderNx
    tasks,      \* the tasks given to apply_async, in submission order
    encodes,    \* every call of list2png / list2pnm by a driver
    ioLog       \* every read and write of a path

cvars == <<c_pc, c_list, c_info, c_given, c_file, c_prev, c_out>>

dvars == <<tree, disk, disk0, ui, pc, args, worked, outcome, floc, pool, cursor,
           tasks, encodes, ioLog>>

vars == <<cvars, dvars>>

\* ------------------------------------------------------------ the folder
\* The entries a chosen folder may hold (tree order is rglob's order).
PngRGB ==
    [suffix |-> ".png", isdir |-> FALSE,
     content |-> [kind |-> "png",
                  info |-> [EmptyInfo EXCEPT !.size = << <<1, 1>> >>, !.planes = <<3>>,
                                             !.alpha = <<FALSE>>, !.greyscale = <<FALSE>>,
                                             !.bitdepth = <<8>>, !.gamma = <<45455>>],
                  rows |-> << <<10, 20, 30>> >>]]

PngGrey ==
    [suffix |-> ".png", isdir |-> FALSE,
     content |-> [kind |-> "png",
                  info |-> [EmptyInfo EXCEPT !.size = << <<1, 1>> >>, !.planes = <<2>>,
                                             !.alpha = <<TRUE>>, !.greyscale = <<TRUE>>,
                                             !.bitdepth = <<16>>,
                                             !.physical = << <<72, 96, FALSE>> >>,
                                             !.compression = <<6>>,
                                             !.background = <<"bkgd">>],
                  rows |-> << <<1000, 65535>> >>]]

PngBad == [suffix |-> ".png", isdir |-> FALSE, content |-> [kind |-> "other"]]

PngDir == [suffix |-> ".png", isdir |-> TRUE, content |-> [kind |-> "dir"]]

Pgm ==
    [suffix |-> ".pgm", isdir |-> FALSE,
     content |-> [kind |-> "pnm", image |-> << << <<1000>> >> >>, maxcolors |-> 65535]]

Pbm ==
    [suffix |-> ".pbm", isdir |-> FALSE,
     content |-> [kind |-> "pnm", image |-> << << <<1>> >> >>, maxcolors |-> 1]]

Txt == [suffix |-> ".txt", isdir |-> FALSE, content |-> [kind |-> "other"]]

EntryKinds == {PngRGB, PngGrey, PngBad, PngDir, Pgm, Txt}

\* Files outside the chosen folder that the open dialog of FileNx can reach.
Elsewhere == <<Pbm>>

OutSuffixes == {".png", ".ppm", ".pgm", ".jpg"}

NoLocals == [source |-> 0, dec |-> <<>>, scaled |-> <<>>, info |-> <<>>, suffix |-> ""]

NoArgs == [size |-> 0, sfx |-> FALSE]

\* Path i: an entry of the folder, or a file elsewhere.
File(t, i) == IF i <= Len(t) THEN t[i] ELSE Elsewhere[i - Len(t)]

\* Line 306: path.rglob('*.*') yields every entry, file or directory, whose
\* name holds a dot.
rglob(t) == SelectSeq([i \in 1..Len(t) |-> i], LAMBDA i : t[i].suffix # "")

DriverIdle ==
    /\ tree = <<>>
    /\ disk = <<>>
    /\ disk0 = <<>>
    /\ ui = "normal"
    /\ pc = "idle"
    /\ args = NoArgs
    /\ worked = FALSE
    /\ outcome = "none"
    /\ floc = NoLocals
    /\ pool = "none"
    /\ cursor = 0
    /\ tasks = <<>>
    /\ encodes = {}
    /\ ioLog = {}

\* ------------------------------------------------------------- codec runs
CodecInit ==
    /\ c_pc = "start"
    /\ c_list \in Arrays
    /\ c_info \in StaleInfos
    /\ c_given = EmptyInfo
    /\ c_file = NoFile
    /\ c_prev = NoFile
    /\ c_out = <<>>
    /\ DriverIdle

CodecEncode ==
    /\ c_pc = "start"
    /\ c_file' = list2png(c_list, c_info)
    /\ c_info' = c_file'.info
    /\ c_given' = c_info
    /\ c_pc' = "encoded"
    /\ UNCHANGED <<c_list, c_prev, c_out, dvars>>

\* The same array encoded again with another caller-supplied info.
CodecReencode ==
    /\ c_pc = "encoded"
    /\ \E other \in StaleInfos :
          /\ c_file' = list2png(c_list, other)
          /\ c_info' = c_file'.info
          /\ c_given' = other
    /\ c_prev' = c_file
    /\ c_pc' = "reencoded"
    /\ UNCHANGED <<c_list, c_out, dvars>>

CodecDecode ==
    /\ c_pc \in {"encoded", "reencoded"}
    /\ c_out' = <<png2list(c_file)>>
    /\ c_pc' = "decoded"
    /\ UNCHANGED <<c_list, c_info, c_given, c_file, c_prev, dvars>>

CodecNext == CodecEncode \/ CodecReencode \/ CodecDecode

CodecSpec == CodecInit /\ [][CodecNext]_vars

\* -------------------------------------------------------- the GUI thread
Init ==
    /\ c_pc = "off" /\ c_list = <<>> /\ c_info = EmptyInfo /\ c_given = EmptyInfo
    /\ c_file = NoFile /\ c_prev = NoFile /\ c_out = <<>>
    /\ tree \in [1..MaxEntries -> EntryKinds]
    /\ disk = [i \in 0..(MaxEntries + Len(Elsewhere)) |->
                  IF i = 0 THEN NoFile ELSE File(tree, i).content]
    /\ disk0 = disk
    /\ ui = "normal"
    /\ pc = "idle"
    /\ args = NoArgs
    /\ worked = FALSE
    /\ outcome = "none"
    /\ floc = NoLocals
    /\ pool = "none"
    /\ cursor = 0
    /\ tasks = <<>>
    /\ encodes = {}
    /\ ioLog = {}

\* Lines 48-80.
UINormal == ui' = "normal"

UIWaiting == ui' = "waiting"

UIBusy == ui' = "busy"

\* A button of the main window (lines 374-408): enabled in the normal state only.
Press(entry) ==
    /\ pc = "idle"
    /\ ui = "normal"
    /\ \E size \in {2, 3}, sfx \in BOOLEAN : args' = [size |-> size, sfx |-> sfx]
    /\ pc' = entry
    /\ outcome' = "none"
    /\ floc' = NoLocals

\* An exception leaves the callback; Tk reports it and the main loop goes on.
Raise(what) ==
    /\ outcome' = what
    /\ pc' = "idle"
    /\ UNCHANGED ui

Return(what) ==
    /\ UINormal
    /\ outcome' = what
    /\ pc' = "idle"

GuiRead(i) == [who |-> "FileNx", t |-> 0, path |-> i, op |-> "read"]

GuiWrite(i) == [who |-> "FileNx", t |-> 0, path |-> i, op |-> "write"]

\* FileNx, lines 91-94: UIWaiting, the open dialog is up.
FileNx_Start ==
    /\ Press("f_opendlg")
    /\ UIWaiting
    /\ UNCHANGED <<cvars, tree, disk, disk0, worked, pool, cursor, tasks, encodes, ioLog>>

\* Lines 95-97.
FileNx_OpenCancel ==
    /\ pc = "f_opendlg"
    /\ Return("cancelled")
    /\ UNCHANGED <<cvars, tree, disk, disk0, args, worked, floc, pool, cursor, tasks,
                   encodes, ioLog>>

\* Lines 94, 99: a file is chosen.
FileNx_Open ==
    /\ pc = "f_opendlg"
    /\ ~worked
    /\ \E i \in 1..(Len(tree) + Len(Elsewhere)) :
          /\ ~File(tree, i).isdir
          /\ floc' = [NoLocals EXCEPT !.source = i]
    /\ worked' = TRUE
    /\ UIBusy
    /\ pc' = "f_body"
    /\ UNCHANGED <<cvars, tree, disk, disk0, args, outcome, pool, cursor, tasks,
                   encodes, ioLog>>

\* Lines 101-163: decode by extension, scale, fix resolution and compression,
\* UIWaiting for the save dialog.
FileNx_Decoded(dec, info) ==
    /\ floc' = [floc EXCEPT
                  !.dec = <<dec>>,
                  !.scaled = <<chosen_scaler(args.size, args.sfx, dec.list_3d)>>,
                  !.info = <<info, set_compression(fix_resolution(info, args.size))>>]
    /\ ioLog' = ioLog \cup {GuiRead(floc.source)}
    /\ UIWaiting
    /\ pc' = "f_savedlg"
    /\ UNCHANGED outcome

FileNx_Body ==
    /\ pc = "f_body"
    /\ LET i == floc.source
           suffix == File(tree, i).suffix
       IN  IF is_png(suffix)
           THEN IF png_readable(disk[i])
                THEN FileNx_Decoded(png2list(disk[i]), png2list(disk[i]).info)
                ELSE /\ Raise("raised:decode")
                     /\ ioLog' = ioLog \cup {GuiRead(i)}
                     /\ UNCHANGED floc
           ELSE IF is_pnm_any(suffix)
           THEN IF pnm_readable(disk[i])
                THEN FileNx_Decoded(pnm2list(disk[i]),
                                    dummy_info(pnm2list(disk[i]).maxcolors))
                ELSE /\ Raise("raised:decode")
                     /\ ioLog' = ioLog \cup {GuiRead(i)}
                     /\ UNCHANGED floc
           ELSE /\ Raise("raised:ValueError")
                /\ UNCHANGED <<floc, ioLog>>
    /\ UNCHANGED <<cvars, tree, disk, disk0, args, worked, pool, cursor, tasks, encodes>>

\* Lines 171-173.
FileNx_SaveCancel ==
    /\ pc = "f_savedlg"
    /\ Return("cancelled")
    /\ UNCHANGED <<cvars, tree, disk, disk0, args, worked, floc, pool, cursor, tasks,
                   encodes, ioLog>>

\* Lines 166-175: a result file name is chosen.
FileNx_SaveChosen ==
    /\ pc = "f_savedlg"
    /\ \E s \in OutSuffixes : floc' = [floc EXCEPT !.suffix = s]
    /\ UIBusy
    /\ pc' = "f_write"
    /\ UNCHANGED <<cvars, tree, disk, disk0, args, worked, outcome, pool, cursor, tasks,
                   encodes, ioLog>>

\* A call of an encoder: the metadata decoded, the metadata given to list2png
\* and the metadata list2png hands to the PNG writer (none for list2pnm).
Encode(by, encoder, size, decoded, given, file) ==
    [by |-> by, encoder |-> encoder, size |-> size, decoded |-> decoded,
     given |-> IF encoder = "list2png" THEN given ELSE <<>>,
     info |-> IF encoder = "list2png" THEN <<file.info>> ELSE <<>>]

\* Lines 177-184: write by extension; a write may fail (disk, permission).
FileNx_WriteAs(encoder, file) ==
    /\ encodes' = encodes \cup
          {Encode("FileNx", encoder, args.size, <<floc.info[1]>>, <<floc.info[2]>>, file)}
    /\ ioLog' = ioLog \cup {GuiWrite(0)}
    /\ \E ok \in BOOLEAN :
          IF ok
          THEN /\ disk' = [disk EXCEPT ![0] = file]
               /\ Return("returned")
          ELSE /\ disk' = [disk EXCEPT ![0] = [kind |-> "other"]]
               /\ Raise("raised:write")

FileNx_Write ==
    /\ pc = "f_write"
    /\ IF is_png(floc.suffix)
       THEN FileNx_WriteAs("list2png", list2png(floc.scaled[1], floc.info[2]))
       ELSE IF is_pnm(floc.suffix)
       THEN FileNx_WriteAs("list2pnm", list2pnm(floc.scaled[1], floc.dec[1].maxcolors))
       ELSE /\ Return("returned")
            /\ UNCHANGED <<disk, encodes, ioLog>>
    /\ UNCHANGED <<cvars, tree, disk0, args, worked, floc, pool, cursor, tasks>>

\* ---------------------------------------------------------------- FolderNx
\* Lines 290-293.
FolderNx_Start ==
    /\ Press("d_opendlg")
    /\ UIWaiting
    /\ UNCHANGED <<cvars, tree, disk, disk0, worked, pool, cursor, tasks, encodes, ioLog>>

\* Lines 294-296.
FolderNx_OpenCancel ==
    /\ pc = "d_opendlg"
    /\ Return("cancelled")
    /\ UNCHANGED <<cvars, tree, disk, disk0, args, worked, floc, pool, cursor, tasks,
                   encodes, ioLog>>

\* Lines 298-303: the folder is chosen, UIBusy, the pool is created.
FolderNx_Open ==
    /\ pc = "d_opendlg"
    /\ ~worked
    /\ worked' = TRUE
    /\ UIBusy
    /\ pool' = "RUN"
    /\ cursor' = 1
    /\ tasks' = <<>>
    /\ disk0' = disk
    /\ pc' = "d_feed"
    /\ UNCHANGED <<cvars, tree, disk, args, outcome, floc, encodes, ioLog>>

Task(fn, i) ==
    [fn |-> fn, path |-> i, size |-> args.size, sfx |-> args.sfx,
     status |-> "queued", attempts |-> 0, dec |-> <<>>]

\* Lines 306-324: one turn of the loop over rglob; apply_async needs a running pool.
FolderNx_Feed ==
    /\ pc = "d_feed"
    /\ cursor <= Len(rglob(tree))
    /\ pool = "RUN"
    /\ LET runningfilename == rglob(tree)[cursor]
           suffix == tree[runningfilename].suffix
       IN  tasks' = tasks
                \o (IF is_png(suffix)
                    THEN <<Task("scale_file_png", runningfilename)>> ELSE <<>>)
                \o (IF is_pnm(suffix)
                    THEN <<Task("scale_file_pnm", runningfilename)>> ELSE <<>>)
    /\ cursor' = cursor + 1
    /\ UNCHANGED <<cvars, tree, disk, disk0, ui, pc, args, worked, outcome, floc, pool,
                   encodes, ioLog>>

\* Line 327.
FolderNx_Close ==
    /\ pc = "d_feed"
    /\ cursor > Len(rglob(tree))
    /\ pool' = "CLOSE"
    /\ pc' = "d_join"
    /\ UNCHANGED <<cvars, tree, disk, disk0, ui, args, worked, outcome, floc, cursor,
                   tasks, encodes, ioLog>>

Finished(t) == tasks[t].status \in {"done", "failed"}

\* Lines 328-332: join returns once every task has finished and the workers
\* have left; then UINormal.
FolderNx_Join ==
    /\ pc = "d_join"
    /\ pool = "CLOSE"
    /\ \A t \in 1..Len(tasks) : Finished(t)
    /\ pool' = "none"
    /\ IF task_error_reaches_driver /\ \E t \in 1..Len(tasks) : tasks[t].status = "failed"
       THEN Raise("raised:task")
       ELSE Return("returned")
    /\ UNCHANGED <<cvars, tree, disk, disk0, args, worked, floc, cursor, tasks,
                   encodes, ioLog>>

\* ------------------------------------------------------- the pool's workers
Running == {t \in 1..Len(tasks) : tasks[t].status = "running"}

\* A free worker takes the oldest queued task and runs it up to its decode:
\* scale_file_png lines 196-200, scale_file_pnm lines 255-259. An exception
\* ends the task; the worker stays.
Worker_Read(t) ==
    /\ pool \in {"RUN", "CLOSE"}
    /\ tasks[t].status = "queued"
    /\ \A u \in 1..(t - 1) : tasks[u].status # "queued"
    /\ Cardinality(Running) < NWorkers
    /\ LET oldfile == tasks[t].path
           ok == IF tasks[t].fn = "scale_file_png" THEN png_readable(disk[oldfile])
                 ELSE pnm_readable(disk[oldfile])
       IN  /\ tasks' = [tasks EXCEPT
                  ![t].attempts = @ + 1,
                  ![t].status = IF ok THEN "running" ELSE "failed",
                  ![t].dec = IF ~ok THEN <<>>
                             ELSE IF tasks[t].fn = "scale_file_png"
                             THEN <<png2list(disk[oldfile])>>
                             ELSE <<pnm2list(disk[oldfile])>>]
           /\ ioLog' = ioLog \cup
                  {[who |-> tasks[t].fn, t |-> t, path |-> oldfile, op |-> "read"]}
    /\ UNCHANGED <<cvars, tree, disk, disk0, ui, pc, args, worked, outcome, floc, pool,
                   cursor, encodes>>

\* The rest of the task: scale and write (lines 202-241, 261-277).
Worker_Write(t) ==
    /\ pool \in {"RUN", "CLOSE"}
    /\ tasks[t].status = "running"
    /\ LET task == tasks[t]
           png == task.fn = "scale_file_png"
           file == IF png THEN scale_file_png_result(task.dec[1], task.size, task.sfx)
                   ELSE scale_file_pnm_result(task.dec[1], task.size, task.sfx)
       IN  /\ disk' = [disk EXCEPT ![newfile(task.path)] = file]
           /\ encodes' = encodes \cup
                  {Encode(task.fn, IF png THEN "list2png" ELSE "list2pnm", task.size,
                          IF png THEN <<task.dec[1].info>> ELSE <<>>,
                          IF png THEN <<scale_file_png_info(task.dec[1], task.size)>>
                          ELSE <<>>,
                          file)}
           /\ ioLog' = ioLog \cup
                  {[who |-> task.fn, t |-> t, path |-> newfile(task.path), op |-> "write"]}
    /\ tasks' = [tasks EXCEPT ![t].status = "done", ![t].dec = <<>>]
    /\ UNCHANGED <<cvars, tree, disk0, ui, pc, args, worked, outcome, floc, pool, cursor>>

Next ==
    \/ FileNx_Start
    \/ FileNx_OpenCancel
    \/ FileNx_Open
    \/ FileNx_Body
    \/ FileNx_SaveCancel
    \/ FileNx_SaveChosen
    \/ FileNx_Write
    \/ FolderNx_Start
    \/ FolderNx_OpenCancel
    \/ FolderNx_Open
    \/ FolderNx_Feed
    \/ FolderNx_Close
    \/ FolderNx_Join
    \/ \E t \in 1..Len(tasks) : Worker_Read(t)
    \/ \E t \in 1..Len(tasks) : Worker_Write(t)

Spec == Init /\ [][Next]_vars

\* ------------------------------------------------------ driver properties
Eligible(i) ==
    /\ ~tree[i].isdir
    /\ tree[i].suffix \in {".png", ".ppm", ".pgm"}

EligibleFiles == {i \in 1..Len(tree) : Eligible(i)}

TasksOf(i) == {t \in 1..Len(tasks) : tasks[t].path = i}

\* FolderNx has gone through close and join and has returned.
FolderDone == cursor > 0 /\ pool = "none"

Fed == pc = "d_join" \/ FolderDone

\* C1: for a tree of K eligible files and M ineligible ones FolderNx submits
\* exactly K tasks, one per eligible file and none for anything else, none once
\* the pool is closed, and returns only when all of them have finished.
C1_BatchCompleteness ==
    /\ Fed =>
          /\ Len(tasks) = Cardinality(EligibleFiles)
          /\ \A i \in 1..Len(tree) :
                Cardinality(TasksOf(i)) = IF Eligible(i) THEN 1 ELSE 0
    /\ pool = "CLOSE" => cursor > Len(rglob(tree))
    /\ FolderDone => \A t \in 1..Len(tasks) : Finished(t)

Readable(fn, content) ==
    IF fn = "scale_file_png" THEN png_readable(content) ELSE pnm_readable(content)

\* C2: a task that raises ends alone. It is not run again, the pool stays open
\* for the rest of the loop, every other task runs to its own end, and
\* FolderNx goes through close and join and returns without raising.
C2_FailureIsolation ==
    /\ \A t \in 1..Len(tasks) :
          /\ tasks[t].attempts <= 1
          /\ tasks[t].status \in {"running", "done", "failed"} => tasks[t].attempts = 1
    /\ pc = "d_feed" => pool = "RUN"
    /\ pc \in {"d_feed", "d_join"} => ENABLED Next
    /\ FolderDone =>
          /\ outcome \in {"returned", "none", "cancelled"}
          /\ ui # "busy"
          /\ \A t \in 1..Len(tasks) :
                tasks[t].status =
                    IF Readable(tasks[t].fn, disk0[tasks[t].path]) THEN "done" ELSE "failed"

C2_Witness ==
    /\ FolderDone
    /\ outcome = "returned"
    /\ ui = "normal"
    /\ Len(tasks) = 3
    /\ tasks[1].status = "failed"
    /\ tasks[2].status = "done"
    /\ tasks[3].status = "done"
    /\ disk[tasks[1].path] = disk0[tasks[1].path]
    /\ disk[tasks[2].path] # disk0[tasks[2].path]
    /\ disk[tasks[3].path] # disk0[tasks[3].path]

\* What the file of task t holds once the task is over.
Expected(t) ==
    LET old == disk0[tasks[t].path]
    IN  IF ~Readable(tasks[t].fn, old) THEN old
        ELSE IF tasks[t].fn = "scale_file_png"
        THEN scale_file_png_result(png2list(old), tasks[t].size, tasks[t].sfx)
        ELSE scale_file_pnm_result(pnm2list(old), tasks[t].size, tasks[t].sfx)

\* C3: a task reads and writes its own path only, no path gets two tasks, a
\* path without a task is never opened or changed, and when FolderNx has
\* returned every file holds what its own task alone makes of it, whatever
\* the order the pool ran the tasks in.
C3_TaskIndependence ==
    /\ \A e \in ioLog : e.who # "FileNx" => e.path = tasks[e.t].path
    /\ \A t1, t2 \in 1..Len(tasks) : tasks[t1].path = tasks[t2].path => t1 = t2
    /\ \A i \in 1..Len(tree) :
          ~(is_png(tree[i].suffix) \/ is_pnm(tree[i].suffix)) =>
              /\ TasksOf(i) = {}
              /\ cursor > 0 => disk[i] = disk0[i]
              /\ \A e \in ioLog : e.who # "FileNx" => e.path # i
    /\ FolderDone =>
          /\ \A t \in 1..Len(tasks) : disk[tasks[t].path] = Expected(t)
          /\ \A i \in 1..Len(tree) : TasksOf(i) = {} => disk[i] = disk0[i]

C3_Witness ==
    /\ FolderDone
    /\ Len(tasks) = 2
    /\ tasks[1].status = "done" /\ tasks[2].status = "done"
    /\ tasks[1].fn = "scale_file_png" /\ tasks[2].fn = "scale_file_pnm"
    /\ tasks[1].size = 3
    /\ disk[tasks[1].path].kind = "png"
    /\ Get(disk[tasks[1].path].info, "size") = <<3, 3>>
    /\ disk[tasks[2].path].kind = "pnm"
    /\ Len(disk[tasks[2].path].image) = 3
    /\ \E i \in 1..Len(tree) : tree[i] = Txt /\ disk[i] = disk0[i]

Law(decoded, N, physical) ==
    physical =
        IF Has(decoded, "physical")
        THEN << <<N * Get(decoded, "physical")[1], N * Get(decoded, "physical")[2],
                  Get(decoded, "physical")[3]>> >>
        ELSE << <<N * 3780, N * 3780, TRUE>> >>

C5_EveryEncodeMax ==
    \A e \in encodes : e.info # <<>> /\ e.info[1].compression = <<9>>

\* C5 as amended: every PNG encode a driver issues (list2png, from FileNx or
\* scale_file_png) is handed compression level 9, whatever the decoded
\* metadata held; so is the metadata FileNx holds once it has set it.
C5_PngEncodeMax ==
    /\ \A e \in encodes :
          e.encoder = "list2png" =>
              /\ e.info # <<>>
              /\ e.info[1].compression = <<9>>
    /\ floc.info # <<>> => floc.info[2].compression = <<9>>

C5_Witness ==
    \E e \in encodes :
        /\ e.encoder = "list2png"
        /\ e.decoded[1].compression = <<6>>
        /\ e.info[1].compression = <<9>>

\* C10: FileNx rejects a chosen input file, and a chosen output file, of an
\* unsupported extension with an explicit error, before any read or write of it.
C10_UnsupportedRejected ==
    /\ (pc = "idle" /\ floc.source # 0
          /\ ~(is_png(File(tree, floc.source).suffix)
                \/ is_pnm_any(File(tree, floc.source).suffix))) =>
              /\ outcome = "raised:ValueError"
              /\ \A e \in ioLog : e.path # floc.source
    /\ (pc = "idle" /\ floc.suffix # ""
          /\ ~(is_png(floc.suffix) \/ is_pnm(floc.suffix))) =>
              /\ outcome = "raised:ValueError"
              /\ \A e \in ioLog : ~(e.path = 0 /\ e.op = "write")

Recomputed == {"size", "planes", "alpha", "greyscale", "palette", "background"}

Adjusted == {"physical", "compression"}

\* C11: list2png changes only size, planes, alpha, greyscale, palette and
\* background: every other key of the info it is given reaches the PNG writer
\* with its value unchanged; and from the decoded metadata to the writer only
\* physical and compression change besides those six.
C11_PassThrough ==
    \A e \in encodes :
        e.encoder = "list2png" =>
            /\ \A k \in InfoKeys \ Recomputed : e.info[1][k] = e.given[1][k]
            /\ \A k \in InfoKeys \ (Recomputed \cup Adjusted) :
                  e.info[1][k] = e.decoded[1][k]

C11_Witness ==
    /\ \E e \in encodes :
          /\ e.by = "scale_file_png"
          /\ e.decoded[1].gamma = <<45455>> /\ e.info[1].gamma = <<45455>>
          /\ e.decoded[1].bitdepth = <<8>> /\ e.info[1].bitdepth = <<8>>
          /\ e.decoded[1].physical # e.info[1].physical
          /\ e.given[1].physical = e.info[1].physical
    /\ \E e \in encodes :
          /\ e.by = "scale_file_png"
          /\ e.decoded[1].bitdepth = <<16>> /\ e.info[1].bitdepth = <<16>>
          /\ e.decoded[1].compression = <<6>>
          /\ e.given[1].compression = <<9>> /\ e.info[1].compression = <<9>>
          /\ e.decoded[1].background # e.info[1].background

\* C12: every call of FileNx or FolderNx ends with the UI in the normal state,
\* however it ends (a dialog cancelled, work done, work failed), and decoding,
\* scaling, encoding and pool work happen in the busy state only.
C12_UIProtocol ==
    /\ pc = "idle" => ui = "normal"
    /\ pc \in {"f_body", "f_write", "d_feed", "d_join"} => ui = "busy"
    /\ pool # "none" => ui = "busy"

\* ------------------------------------------------------ codec properties
ShapeY == Len(c_list)

ShapeX == Len(c_list[1])

ShapeZ == Len(c_list[1][1])

Encoded == c_pc \in {"encoded", "reencoded", "decoded"}

\* C6: round trip. For an array of Z in 1..4 channels, the rows list2png emits,
\* partitioned again by png2list, give back the same X, Y, Z and the same
\* sample at every (y, x, z).
C6_RoundTrip ==
    (c_pc = "decoded" /\ ShapeZ <= 4) =>
        LET out == c_out[1]
        IN  /\ out.X = ShapeX /\ out.Y = ShapeY /\ out.Z = ShapeZ
            /\ Len(out.list_3d) = ShapeY
            /\ \A y \in 1..ShapeY :
                  /\ Len(out.list_3d[y]) = ShapeX
                  /\ \A x \in 1..ShapeX :
                        /\ Len(out.list_3d[y][x]) = ShapeZ
                        /\ \A z \in 1..ShapeZ :
                              out.list_3d[y][x][z] = c_list[y][x][z]

C6_Witness ==
    /\ c_pc = "decoded"
    /\ ShapeX = 2 /\ ShapeZ = 2
    /\ c_list[1][1][2] # c_list[1][2][1]
    /\ c_out[1].list_3d = c_list

\* C7: after list2png the info holds size = (X, Y), planes = Z clamped to 4,
\* alpha = (planes is even), greyscale = (planes < 3), whatever the incoming
\* info held; two encodes of one array with different stale infos agree on
\* these four fields.
C7_DerivedFromShape ==
    Encoded =>
        LET Z == IF ShapeZ > 4 THEN 4 ELSE ShapeZ
        IN  /\ c_file.info.size = << <<ShapeX, ShapeY>> >>
            /\ c_file.info.planes = <<Z>>
            /\ c_file.info.alpha = <<Z \in {2, 4}>>
            /\ c_file.info.greyscale = <<Z \in {1, 2}>>
            /\ c_info = c_file.info
            /\ c_prev.kind = "png" =>
                  \A k \in {"size", "planes", "alpha", "greyscale"} :
                      c_prev.info[k] = c_file.info[k]

C7_Witness ==
    /\ c_pc = "reencoded"
    /\ c_given.size = << <<7, 7>> >> /\ c_file.info.size # c_given.size
    /\ c_given.planes = <<2>> /\ c_file.info.planes = <<3>>
    /\ c_given.alpha = <<TRUE>> /\ c_file.info.alpha = <<FALSE>>
    /\ c_given.greyscale = <<TRUE>> /\ c_file.info.greyscale = <<FALSE>>
    /\ c_prev.info.alpha = <<FALSE>>

\* C8: an array of more than 4 channels is written with planes = 4, every row
\* holding exactly X*4 samples, channels 1..4 of each pixel in order; decoding
\* the result yields Z = 4.
C8_ChannelClamp ==
    (Encoded /\ ShapeZ > 4) =>
        /\ c_file.info.planes = <<4>>
        /\ Len(c_file.rows) = ShapeY
        /\ \A y \in 1..ShapeY :
              /\ Len(c_file.rows[y]) = ShapeX * 4
              /\ \A x \in 1..ShapeX : \A z \in 1..4 :
                    c_file.rows[y][(x - 1) * 4 + z] = c_list[y][x][z]
        /\ c_pc = "decoded" =>
              /\ c_out[1].Z = 4
              /\ \A y \in 1..ShapeY : \A x \in 1..ShapeX :
                    c_out[1].list_3d[y][x] = [z \in 1..4 |-> c_list[y][x][z]]

C8_Witness ==
    /\ c_pc = "decoded"
    /\ ShapeZ = 5
    /\ c_list[1][1][5] # c_list[1][1][4]
    /\ c_out[1].Z = 4

\* C9: whatever the info given to list2png held, the info the PNG writer gets
\* has neither a palette nor a background entry.
C9_NoPaletteNoBackground ==
    Encoded => (~Has(c_file.info, "palette") /\ ~Has(c_file.info, "background"))

C9_Witness ==
    /\ c_pc = "encoded"
    /\ Has(c_given, "palette") /\ Has(c_given, "background")
    /\ ~Has(c_file.info, "palette") /\ ~Has(c_file.info, "background")

====
